---- MODULE Spec2Model ----
(***************************************************************************)
(* Model of scripts/make_charts.py: the module-level pipeline that takes   *)
(* the daily bars of 0050.TW, computes the moving averages and the RSV of  *)
(* KD(9), detects pivots of the closing price, filters them, labels the    *)
(* last eight as waves 1-5, A, B, C and projects a C-wave target.          *)
(*                                                                         *)
(* Prices are integers (price units); a quotient is kept exact: a mean or  *)
(* an RSV is the pair <<numerator, denominator>>, NaN is the pair <<0, 0>>, *)
(* the projected target is kept in thousandths of a price unit.  Bar       *)
(* indices are 0-based as in the script.                                   *)
(***************************************************************************)
EXTENDS Integers, Sequences, FiniteSets, TLC

\* ------------------------------------------------------------------ bounds
MaxMotif == 6
MaxReps == 5
LeadIn == 9
Prices == {99, 100, 101}
MinTargetPrice == 95
MaxTargetPrice == 110

\* ------------------------------------------------------- program constants
MA_WINDOWS == {5, 14, 20}
KD_WINDOW == 9
WINDOW == 3
MIN_GAP == 3
DELTA_DEN == 100
LABEL_COUNT == 8
wave_marks == <<"1", "2", "3", "4", "5", "A", "B", "C">>
RATIO_MILLI == 618
PRED_DAYS == 20

\* a float that is not a number; every other float is <<numerator, denominator>>
NaN == <<0, 0>>

VARIABLES
    Close,        \* df["Close"], one close per bar
    pc,           \* position of the script
    MA,           \* df["MA_n"] for n in MA_WINDOWS
    RSV,          \* df["RSV"]
    zero_div,     \* a quotient with denominator 0 has been evaluated
    hi_idx,       \* pivots_high
    lo_idx,       \* pivots_low
    all_idx,      \* merged pivot list
    k,            \* number of elements of all_idx the filter loop has consumed
    filtered,     \* accepted pivots
    labels,       \* dict bar index -> wave mark
    looked_up,    \* b_idx / a_idx have been looked up in labels
    pred_path_x,  \* dates of the projection
    pred_path_y   \* prices of the projection (thousandths)

vars == <<Close, pc, MA, RSV, zero_div, hi_idx, lo_idx, all_idx, k, filtered,
          labels, looked_up, pred_path_x, pred_path_y>>

\* ----------------------------------------------------------------- helpers
At(s, i) == s[i + 1]

Abs(x) == IF x < 0 THEN -x ELSE x

SeqMax(s) == CHOOSE x \in {s[j] : j \in 1..Len(s)} : \A j \in 1..Len(s) : s[j] <= x

SeqMin(s) == CHOOSE x \in {s[j] : j \in 1..Len(s)} : \A j \in 1..Len(s) : x <= s[j]

Range(s) == {s[j] : j \in 1..Len(s)}

\* dict.values()
Values(d) == {d[x] : x \in DOMAIN d}

\* sorted(S) for a set of integers
RECURSIVE Sorted(_)
Sorted(S) ==
    IF S = {} THEN <<>>
    ELSE LET m == CHOOSE x \in S : \A y \in S : x <= y
         IN  <<m>> \o Sorted(S \ {m})

\* -------------------------------------------------------------- the input
\* The closes the data provider returns: lead bars at the first close of a
\* motif, then the motif repeated reps times (no lead and no repetition is the
\* empty series).  Inputs takes every motif of up to MaxMotif closes, alone,
\* not at all or MaxReps times, with no lead or LeadIn lead bars.
Series(lead, motif, reps) ==
    [i \in 1..(lead + Len(motif) * reps) |->
        IF i <= lead THEN motif[1] ELSE motif[((i - lead - 1) % Len(motif)) + 1]]

\* Open of a bar is the previous close; High and Low are the larger and the
\* smaller of Open and Close.
Open(c, i) == IF i = 0 THEN At(c, 0) ELSE At(c, i - 1)

High(c, i) == IF Open(c, i) > At(c, i) THEN Open(c, i) ELSE At(c, i)

Low(c, i) == IF Open(c, i) < At(c, i) THEN Open(c, i) ELSE At(c, i)

\* Date of bar i as a day number: five trading days a week.
Date(i) == i + 2 * (i \div 5)

\* ------------------------------------------------------------- indicators
\* Series.rolling(n).mean(): a running window sum, NaN until n observations.
RECURSIVE RollSum_LateRemove(_, _, _)
RollSum_LateRemove(c, n, i) ==
    IF i < 0 THEN 0
    ELSE RollSum_LateRemove(c, n, i - 1) + At(c, i)
         - (IF i > n THEN At(c, i - n) ELSE 0)

RECURSIVE RollSum(_, _, _)
RollSum(c, n, i) ==
    IF i < 0 THEN 0
    ELSE RollSum(c, n, i - 1) + At(c, i) - (IF i >= n THEN At(c, i - n) ELSE 0)

RollingMean(c, n) ==
    [j \in 1..Len(c) |-> IF j < n THEN NaN ELSE <<RollSum(c, n, j - 1), n>>]

\* rolling(9).min() of Low and rolling(9).max() of High at a bar whose
\* trailing window is full
low_min(c, i) == SeqMin([j \in 1..KD_WINDOW |-> Low(c, i - KD_WINDOW + j)])

high_max(c, i) == SeqMax([j \in 1..KD_WINDOW |-> High(c, i - KD_WINDOW + j)])

\* the rolling extremes are NaN until the window holds 9 bars
WindowFull(i) == i >= KD_WINDOW - 1

\* (Close - low_min) / (high_max - low_min) * 100, float semantics: 0/0 = NaN
RSVAt(c, i) ==
    IF ~WindowFull(i) THEN NaN
    ELSE IF high_max(c, i) - low_min(c, i) = 0 THEN NaN
    ELSE <<(At(c, i) - low_min(c, i)) * 100, high_max(c, i) - low_min(c, i)>>

\* the division of line 44 is evaluated with a zero denominator at bar i
ZeroDenominator(c, i) ==
    /\ WindowFull(i)
    /\ high_max(c, i) - low_min(c, i) = 0

\* ----------------------------------------------------------------- pivots
Segment(series, i, window) ==
    [j \in 1..(2 * window + 1) |-> At(series, i - window + j - 1)]

PivotRange_SkipFirst(series, window) == (window + 1) .. (Len(series) - window - 1)

PivotRange(series, window) == window .. (Len(series) - window - 1)

pivots_high(series, window) ==
    Sorted({i \in PivotRange(series, window) :
               At(series, i) = SeqMax(Segment(series, i, window))})

pivots_low(series, window) ==
    Sorted({i \in PivotRange(series, window) :
               At(series, i) = SeqMin(Segment(series, i, window))})

\* sorted(hi_idx + lo_idx): the merge without set()
RECURSIVE Merge_NoSet(_, _)
Merge_NoSet(hi, lo) ==
    IF hi = <<>> THEN lo
    ELSE IF lo = <<>> THEN hi
    ELSE IF hi[1] <= lo[1] THEN <<hi[1]>> \o Merge_NoSet(Tail(hi), lo)
    ELSE <<lo[1]>> \o Merge_NoSet(hi, Tail(lo))

\* sorted(set(hi_idx + lo_idx))
Merge(hi, lo) == Sorted(Range(hi \o lo))

\* ----------------------------------------------------------------- filter
FilterOne_GapInclusive(c, acc, idx) ==
    IF acc = <<>> THEN <<idx>>
    ELSE IF (idx - acc[Len(acc)]) <= MIN_GAP THEN acc
    ELSE IF DELTA_DEN * Abs(At(c, idx) - At(c, acc[Len(acc)])) < At(c, acc[Len(acc)])
         THEN acc
    ELSE Append(acc, idx)

\* one iteration of the loop of lines 70-79 on candidate idx
FilterOne(c, acc, idx) ==
    IF acc = <<>> THEN <<idx>>
    ELSE IF (idx - acc[Len(acc)]) < MIN_GAP THEN acc
    ELSE IF DELTA_DEN * Abs(At(c, idx) - At(c, acc[Len(acc)])) < At(c, acc[Len(acc)])
         THEN acc
    ELSE Append(acc, idx)

\* ----------------------------------------------------------------- labels
Tail8_First(f) == SubSeq(f, 1, LABEL_COUNT)

Tail8_Seven(f) == SubSeq(f, Len(f) - LABEL_COUNT + 2, Len(f))

\* filtered[-8:]
Tail8(f) == SubSeq(f, Len(f) - LABEL_COUNT + 1, Len(f))

Min2(a, b) == IF a < b THEN a ELSE b

\* for w, idx in zip(wave_marks, piv): labels[idx] = w
ZipLabels(piv) ==
    LET n == Min2(Len(wave_marks), Len(piv))
    IN  [idx \in {piv[j] : j \in 1..n} |->
            wave_marks[CHOOSE j \in 1..n :
                          /\ piv[j] = idx
                          /\ \A j2 \in 1..n : piv[j2] = idx => j2 <= j]]

MakeLabels(f) == IF Len(f) >= LABEL_COUNT THEN ZipLabels(Tail8(f)) ELSE <<>>

\* [k for k, v in labels.items() if v == mark], in insertion order
KeysOf(lab, mark) == Sorted({i \in DOMAIN lab : lab[i] = mark})

c_target_Abs(price_a, price_b) == 1000 * price_b + Abs(price_b - price_a) * RATIO_MILLI

c_target(price_a, price_b) == 1000 * price_b + (price_b - price_a) * RATIO_MILLI

\* [last_date, last_date + timedelta(days=20)] with the horizon counted in bars
PredPathX_Bars(b_idx) == <<Date(b_idx), Date(b_idx + PRED_DAYS)>>

\* [last_date, pred_end]
PredPathX(b_idx) == <<Date(b_idx), Date(b_idx) + PRED_DAYS>>

\* ------------------------------------------------------------------- Init
Inputs ==
    {Series(lead, motif, reps) :
        lead \in {0, LeadIn},
        motif \in UNION {[1..m -> Prices] : m \in 1..MaxMotif},
        reps \in {0, 1, MaxReps}}

Init ==
    /\ Close \in Inputs
    /\ pc = "ma"
    /\ MA = <<>>
    /\ RSV = <<>>
    /\ zero_div = FALSE
    /\ hi_idx = <<>>
    /\ lo_idx = <<>>
    /\ all_idx = <<>>
    /\ k = 0
    /\ filtered = <<>>
    /\ labels = <<>>
    /\ looked_up = FALSE
    /\ pred_path_x = <<>>
    /\ pred_path_y = <<>>

\* ---------------------------------------------------------------- actions
\* lines 31-32
ComputeMA ==
    /\ pc = "ma"
    /\ MA' = [n \in MA_WINDOWS |-> RollingMean(Close, n)]
    /\ pc' = "kd"
    /\ UNCHANGED <<Close, RSV, zero_div, hi_idx, lo_idx, all_idx, k, filtered,
                   labels, looked_up, pred_path_x, pred_path_y>>

\* lines 42-44
ComputeRSV ==
    /\ pc = "kd"
    /\ RSV' = [j \in 1..Len(Close) |-> RSVAt(Close, j - 1)]
    /\ zero_div' = \E i \in 0..(Len(Close) - 1) : ZeroDenominator(Close, i)
    /\ pc' = "pivots"
    /\ UNCHANGED <<Close, MA, hi_idx, lo_idx, all_idx, k, filtered,
                   labels, looked_up, pred_path_x, pred_path_y>>

\* line 63
DetectPivots ==
    /\ pc = "pivots"
    /\ hi_idx' = pivots_high(Close, WINDOW)
    /\ lo_idx' = pivots_low(Close, WINDOW)
    /\ pc' = "merge"
    /\ UNCHANGED <<Close, MA, RSV, zero_div, all_idx, k, filtered,
                   labels, looked_up, pred_path_x, pred_path_y>>

\* lines 66-69
MergePivots ==
    /\ pc = "merge"
    /\ all_idx' = Merge(hi_idx, lo_idx)
    /\ filtered' = <<>>
    /\ k' = 0
    /\ pc' = "filter"
    /\ UNCHANGED <<Close, MA, RSV, zero_div, hi_idx, lo_idx,
                   labels, looked_up, pred_path_x, pred_path_y>>

\* lines 70-79, one iteration
FilterStep ==
    /\ pc = "filter"
    /\ k < Len(all_idx)
    /\ filtered' = FilterOne(Close, filtered, all_idx[k + 1])
    /\ k' = k + 1
    /\ UNCHANGED <<Close, pc, MA, RSV, zero_div, hi_idx, lo_idx, all_idx,
                   labels, looked_up, pred_path_x, pred_path_y>>

\* lines 82-87
LabelWaves ==
    /\ pc = "filter"
    /\ k = Len(all_idx)
    /\ labels' = MakeLabels(filtered)
    /\ pc' = "predict"
    /\ UNCHANGED <<Close, MA, RSV, zero_div, hi_idx, lo_idx, all_idx, k,
                   filtered, looked_up, pred_path_x, pred_path_y>>

\* lines 90-100
Predict ==
    /\ pc = "predict"
    /\ IF "B" \in Values(labels)
       THEN /\ looked_up' = TRUE
            /\ IF KeysOf(labels, "A") = <<>>
               THEN /\ pc' = "IndexError"
                    /\ UNCHANGED <<pred_path_x, pred_path_y>>
               ELSE LET b_idx == KeysOf(labels, "B")[1]
                        a_idx == KeysOf(labels, "A")[1]
                        price_a == At(Close, a_idx)
                        price_b == At(Close, b_idx)
                    IN  /\ pred_path_x' = PredPathX(b_idx)
                        /\ pred_path_y' = <<1000 * price_b, c_target(price_a, price_b)>>
                        /\ pc' = "done"
       ELSE /\ pc' = "done"
            /\ UNCHANGED <<looked_up, pred_path_x, pred_path_y>>
    /\ UNCHANGED <<Close, MA, RSV, zero_div, hi_idx, lo_idx, all_idx, k,
                   filtered, labels>>

Next ==
    \/ ComputeMA
    \/ ComputeRSV
    \/ DetectPivots
    \/ MergePivots
    \/ FilterStep
    \/ LabelWaves
    \/ Predict

Spec == Init /\ [][Next]_vars

\* ------------------------------------------------- c_target on its own
\* The projection arithmetic of lines 94-96 applied to a pair of closes
\* <<price_a, price_b>> drawn from MinTargetPrice..MaxTargetPrice.
InitTarget ==
    /\ Close \in [1..2 -> MinTargetPrice..MaxTargetPrice]
    /\ pc = "target"
    /\ MA = <<>>
    /\ RSV = <<>>
    /\ zero_div = FALSE
    /\ hi_idx = <<>>
    /\ lo_idx = <<>>
    /\ all_idx = <<>>
    /\ k = 0
    /\ filtered = <<>>
    /\ labels = <<>>
    /\ looked_up = FALSE
    /\ pred_path_x = <<>>
    /\ pred_path_y = <<>>

ApplyTarget ==
    /\ pc = "target"
    /\ pred_path_y' = <<1000 * Close[2], c_target(Close[1], Close[2])>>
    /\ pc' = "target_done"
    /\ UNCHANGED <<Close, MA, RSV, zero_div, hi_idx, lo_idx, all_idx, k,
                   filtered, labels, looked_up, pred_path_x>>

NextTarget == ApplyTarget

SpecTarget == InitTarget /\ [][NextTarget]_vars

\* =================================================================== claims
Sign(x) == IF x > 0 THEN 1 ELSE IF x < 0 THEN -1 ELSE 0

StrictlyAscending(s) == \A j \in 1..(Len(s) - 1) : s[j] < s[j + 1]

Bars == 0..(Len(Close) - 1)

WindowOf(i) == (i - WINDOW)..(i + WINDOW)

Interior(i) == WINDOW <= i /\ i < Len(Close) - WINDOW

IsPeak(i) == Interior(i) /\ \A j \in WindowOf(i) : At(Close, j) <= At(Close, i)

IsTrough(i) == Interior(i) /\ \A j \in WindowOf(i) : At(Close, i) <= At(Close, j)

PivotsMerged == pc \in {"filter", "predict", "done", "IndexError"}

\* C1: pivot_points puts bar i in the peak list exactly when w <= i < L-w and
\* close[i] is the maximum close over [i-w, i+w], in the trough list exactly
\* when w <= i < L-w and close[i] is the minimum over that window; no bar
\* outside w..L-w-1 is emitted, and each list and the merged list all_idx are
\* in strictly ascending bar-index order.
C1_PivotPoints ==
    (pc = "filter" /\ k = 0) =>
        /\ \A i \in Bars : (i \in Range(hi_idx)) <=> IsPeak(i)
        /\ \A i \in Bars : (i \in Range(lo_idx)) <=> IsTrough(i)
        /\ \A i \in Range(hi_idx) \cup Range(lo_idx) \cup Range(all_idx) : Interior(i)
        /\ StrictlyAscending(hi_idx)
        /\ StrictlyAscending(lo_idx)
        /\ StrictlyAscending(all_idx)
        /\ Range(all_idx) = Range(hi_idx) \cup Range(lo_idx)

C1_Witness ==
    /\ pc = "filter"
    /\ k = 0
    /\ Len(hi_idx) >= 2
    /\ Len(lo_idx) >= 2
    /\ hi_idx # lo_idx
    /\ At(Close, WINDOW) = SeqMax(Segment(Close, WINDOW, WINDOW))
    /\ \E i \in Bars : Interior(i) /\ i \notin Range(all_idx)

\* the accepted pivot that precedes candidate c
Before(c) == {f \in Range(filtered) : f < c}

LastBefore(c) == CHOOSE f \in Before(c) : \A g \in Before(c) : g <= f

FarEnough(c, last) == c - last >= 3

BigEnough(c, last) ==
    100 * Abs(At(Close, c) - At(Close, last)) >= At(Close, last)

Produced == pred_path_x # <<>> \/ pred_path_y # <<>>

KeyOf(mark) == CHOOSE i \in DOMAIN labels : labels[i] = mark

\* C4: a projection is produced if and only if a pivot labelled A and a pivot
\* labelled B both exist; when produced it is one two-point segment from
\* (date_B, close_B) to (date_B + 20 calendar days, target), and when not
\* produced the path is empty and A and B were never looked up.
C4_Projection ==
    pc \in {"done", "IndexError"} =>
        /\ pc = "done"
        /\ Produced <=> ("A" \in Values(labels) /\ "B" \in Values(labels))
        /\ Produced =>
              /\ pred_path_x = <<Date(KeyOf("B")), Date(KeyOf("B")) + 20>>
              /\ Len(pred_path_y) = 2
              /\ pred_path_y[1] = 1000 * At(Close, KeyOf("B"))
              /\ pred_path_y[2] = 1000 * At(Close, KeyOf("B"))
                     + 618 * (At(Close, KeyOf("B")) - At(Close, KeyOf("A")))
        /\ ~Produced => (pred_path_x = <<>> /\ pred_path_y = <<>> /\ ~looked_up)

C4_Witness ==
    /\ pc = "done"
    /\ Produced
    /\ looked_up
    /\ pred_path_y[2] < pred_path_y[1]

\* C5: for every pair price_A, price_B (price_B above, below or equal to
\* price_A) the target is price_B + sign(price_B - price_A) *
\* |price_B - price_A| * 0.618, in thousandths; 100 and 110 give 116.18.
C5_Target ==
    pc = "target_done" =>
        /\ pred_path_y[2] = 1000 * Close[2]
              + Sign(Close[2] - Close[1]) * Abs(Close[2] - Close[1]) * 618
        /\ Close = <<100, 110>> => pred_path_y[2] = 116180

C5_Witness ==
    /\ pc = "target_done"
    /\ Close = <<110, 100>>
    /\ pred_path_y = <<100000, 93820>>

LastLabelled == CHOOSE i \in DOMAIN labels : \A j \in DOMAIN labels : j <= i

PrevLabelled ==
    CHOOSE i \in DOMAIN labels \ {LastLabelled} :
        \A j \in DOMAIN labels \ {LastLabelled} : j <= i

\* C6 as stated: a produced segment starts at the labelled pivot with the
\* greatest bar index and extends the swing of the last two labelled pivots.
C6_StartsAtLastLabelled ==
    (pc = "done" /\ Produced) =>
        /\ pred_path_x[1] = Date(LastLabelled)
        /\ pred_path_y[1] = 1000 * At(Close, LastLabelled)
        /\ pred_path_y[2] = 1000 * At(Close, LastLabelled)
               + 618 * (At(Close, LastLabelled) - At(Close, PrevLabelled))

\* C6 amended: a produced segment starts at the pivot labelled B, which is the
\* second most recent labelled pivot (C is the most recent), and extends the
\* swing from the third most recent (A) to the second most recent (B).
C6_StartsAtB ==
    (pc = "done" /\ Produced) =>
        /\ Len(filtered) >= 8
        /\ labels[filtered[Len(filtered)]] = "C"
        /\ pred_path_x[1] = Date(filtered[Len(filtered) - 1])
        /\ pred_path_y[1] = 1000 * At(Close, filtered[Len(filtered) - 1])
        /\ pred_path_y[2] = 1000 * At(Close, filtered[Len(filtered) - 1])
               + 618 * (At(Close, filtered[Len(filtered) - 1])
                         - At(Close, filtered[Len(filtered) - 2]))

C6_Witness ==
    /\ pc = "done"
    /\ Produced
    /\ pred_path_x[1] = Date(PrevLabelled)
    /\ At(Close, LastLabelled) # At(Close, PrevLabelled)

\* C7: with an empty price series the run never completes normally (it ends
\* in an input error before any result is produced).
C7_EmptyFailsFast == Len(Close) = 0 => pc # "done"

RangeZero(i) ==
    /\ i >= 8
    /\ \A a, b \in (i - 8)..i : High(Close, a) = Low(Close, b)

\* C8: at every bar whose trailing 9-bar window has max(high) = min(low) the
\* RSV is undefined, and no division with a zero denominator is performed.
C8_NoZeroDivision ==
    pc = "pivots" =>
        /\ \A i \in Bars : RangeZero(i) => At(RSV, i) = NaN
        /\ ~zero_div

DirectSum(i, n) ==
    LET S[j \in 0..n] == IF j = 0 THEN 0 ELSE S[j - 1] + At(Close, i - n + j)
    IN  S[n]

\* C9: for n in {5, 14, 20}, MA_n at bar i is defined iff i >= n-1, then
\* n * MA_n[i] is the sum of close[i-n+1 .. i]; the frame has one record per
\* input bar.
C9_MovingAverages ==
    pc = "kd" =>
        \A n \in {5, 14, 20} :
            /\ Len(MA[n]) = Len(Close)
            /\ \A i \in Bars :
                  /\ (At(MA[n], i) # NaN) <=> (i >= n - 1)
                  /\ i >= n - 1 =>
                        n * At(MA[n], i)[1] = DirectSum(i, n) * At(MA[n], i)[2]

C9_Witness ==
    /\ pc = "kd"
    /\ Len(Close) > 20
    /\ At(MA[20], 20) # NaN
    /\ At(MA[20], 20) # At(MA[20], 19)
    /\ At(MA[5], 3) = NaN

\* C10: a bar that is both the maximum and the minimum of its window appears
\* exactly once in the merged list, so it is accepted at most once and
\* carries at most one label.
C10_FlatBarOnce ==
    pc = "done" =>
        \A i \in Range(hi_idx) \cap Range(lo_idx) :
            /\ Cardinality({j \in 1..Len(all_idx) : all_idx[j] = i}) = 1
            /\ Cardinality({j \in 1..Len(filtered) : filtered[j] = i}) <= 1

C10_Witness ==
    /\ pc = "done"
    /\ \E i \in Range(hi_idx) \cap Range(lo_idx) : i \in Range(filtered)
    /\ \E i \in Range(hi_idx) : i \notin Range(lo_idx)
    /\ Len(filtered) >= 2

====
